---- MODULE Spec2Model ----
(***************************************************************************)
(* axerrno: the AxError / LinuxError enumerations, the conversions between *)
(* them (From<AxError> for LinuxError, TryFrom<LinuxError> for AxError),   *)
(* AxError::as_str, and the ax_err! / bail! macros.                        *)
(*                                                                         *)
(* A state is the last call made, its input and what it evaluated to,      *)
(* together with the state of the logging sink the macros write to.        *)
(***************************************************************************)
EXTENDS Naturals, Sequences, FiniteSets

VARIABLES op, arg, res, origin, sinkActive, emitted, logged

vars == <<op, arg, res, origin, sinkActive, emitted, logged>>

\* The number of lines the sink accepts before the model stops calling the macros.
MaxLog == 2

----------------------------------------------------------------------------
(* LinuxError: generated at build time from the errno table.  Each entry is *)
(* <<name, code, description>>.                                             *)

LinuxErrnoTable ==
  << <<"EPERM", 1, "Operation not permitted">>,
     <<"ENOENT", 2, "No such file or directory">>,
     <<"ESRCH", 3, "No such process">>,
     <<"EINTR", 4, "Interrupted system call">>,
     <<"EIO", 5, "I/O error">>,
     <<"ENXIO", 6, "No such device or address">>,
     <<"E2BIG", 7, "Argument list too long">>,
     <<"ENOEXEC", 8, "Exec format error">>,
     <<"EBADF", 9, "Bad file number">>,
     <<"ECHILD", 10, "No child processes">>,
     <<"EAGAIN", 11, "Try again">>,
     <<"ENOMEM", 12, "Out of memory">>,
     <<"EACCES", 13, "Permission denied">>,
     <<"EFAULT", 14, "Bad address">>,
     <<"ENOTBLK", 15, "Block device required">>,
     <<"EBUSY", 16, "Device or resource busy">>,
     <<"EEXIST", 17, "File exists">>,
     <<"EXDEV", 18, "Cross-device link">>,
     <<"ENODEV", 19, "No such device">>,
     <<"ENOTDIR", 20, "Not a directory">>,
     <<"EISDIR", 21, "Is a directory">>,
     <<"EINVAL", 22, "Invalid argument">>,
     <<"ENFILE", 23, "File table overflow">>,
     <<"EMFILE", 24, "Too many open files">>,
     <<"ENOTTY", 25, "Not a typewriter">>,
     <<"ETXTBSY", 26, "Text file busy">>,
     <<"EFBIG", 27, "File too large">>,
     <<"ENOSPC", 28, "No space left on device">>,
     <<"ESPIPE", 29, "Illegal seek">>,
     <<"EROFS", 30, "Read-only file system">>,
     <<"EMLINK", 31, "Too many links">>,
     <<"EPIPE", 32, "Broken pipe">>,
     <<"EDOM", 33, "Math argument out of domain of func">>,
     <<"ERANGE", 34, "Math result not representable">>,
     <<"EDEADLK", 35, "Resource deadlock would occur">>,
     <<"ENAMETOOLONG", 36, "File name too long">>,
     <<"ENOLCK", 37, "No record locks available">>,
     <<"ENOSYS", 38, "Invalid system call number">>,
     <<"ENOTEMPTY", 39, "Directory not empty">>,
     <<"ELOOP", 40, "Too many symbolic links encountered">>,
     <<"EILSEQ", 84, "Illegal byte sequence">>,
     <<"ENOTSOCK", 88, "Socket operation on non-socket">>,
     <<"EDESTADDRREQ", 89, "Destination address required">>,
     <<"EMSGSIZE", 90, "Message too long">>,
     <<"EPROTOTYPE", 91, "Protocol wrong type for socket">>,
     <<"ENOPROTOOPT", 92, "Protocol not available">>,
     <<"EPROTONOSUPPORT", 93, "Protocol not supported">>,
     <<"ESOCKTNOSUPPORT", 94, "Socket type not supported">>,
     <<"EOPNOTSUPP", 95, "Operation not supported on transport endpoint">>,
     <<"EPFNOSUPPORT", 96, "Protocol family not supported">>,
     <<"EAFNOSUPPORT", 97, "Address family not supported by protocol">>,
     <<"EADDRINUSE", 98, "Address already in use">>,
     <<"EADDRNOTAVAIL", 99, "Cannot assign requested address">>,
     <<"ENETDOWN", 100, "Network is down">>,
     <<"ENETUNREACH", 101, "Network is unreachable">>,
     <<"ENETRESET", 102, "Network dropped connection because of reset">>,
     <<"ECONNABORTED", 103, "Software caused connection abort">>,
     <<"ECONNRESET", 104, "Connection reset by peer">>,
     <<"ENOBUFS", 105, "No buffer space available">>,
     <<"EISCONN", 106, "Transport endpoint is already connected">>,
     <<"ENOTCONN", 107, "Transport endpoint is not connected">>,
     <<"ESHUTDOWN", 108, "Cannot send after transport endpoint shutdown">>,
     <<"ETOOMANYREFS", 109, "Too many references: cannot splice">>,
     <<"ETIMEDOUT", 110, "Connection timed out">>,
     <<"ECONNREFUSED", 111, "Connection refused">>,
     <<"EHOSTDOWN", 112, "Host is down">>,
     <<"EHOSTUNREACH", 113, "No route to host">>,
     <<"EALREADY", 114, "Operation already in progress">>,
     <<"EINPROGRESS", 115, "Operation now in progress">> >>

\* The LinuxError values, by variant name.
LinuxError == { LinuxErrnoTable[i][1] : i \in 1..Len(LinuxErrnoTable) }

\* LinuxError::as_str: the description of the table entry.
LinuxAsStr(e) ==
  LinuxErrnoTable[CHOOSE i \in 1..Len(LinuxErrnoTable) : LinuxErrnoTable[i][1] = e][3]

----------------------------------------------------------------------------
(* AxError *)

\* The unit variants of AxError, in declaration order.
AxVariants ==
  << "AddressInUse", "AlreadyExists", "BadAddress", "BadState",
     "ConnectionRefused", "ConnectionReset", "DirectoryNotEmpty",
     "InvalidData", "InvalidInput", "Io", "IsADirectory", "NoMemory",
     "NotADirectory", "NotConnected", "NotFound", "PermissionDenied",
     "ResourceBusy", "StorageFull", "UnexpectedEof", "Unsupported",
     "WouldBlock", "WriteZero", "TooBig", "CrossesDevices", "BadIoctl",
     "NameTooLong", "BadFileDescriptor", "FilesystemLoop",
     "OperationNotSupported", "InProgress", "AlreadyConnected",
     "Interrupted", "TimedOut", "NotASocket", "BrokenPipe",
     "TooManyOpenFiles", "NoSuchProcess", "IllegalBytes",
     "OperationNotPermitted", "OutOfRange", "InvalidExecutable",
     "NoSuchDevice", "ReadOnlyFilesystem" >>

AxVariantNames == { AxVariants[i] : i \in 1..Len(AxVariants) }

\* A unit variant, and the Other(LinuxError) variant.
Unit(t) == [tag |-> t]
Other(e) == [tag |-> "Other", errno |-> e]

AxError == { Unit(t) : t \in AxVariantNames } \cup { Other(e) : e \in LinuxError }

\* Result<T, E>
Ok(v) == [kind |-> "Ok", val |-> v]
Err(v) == [kind |-> "Err", val |-> v]

----------------------------------------------------------------------------
(* match: the first arm whose pattern matches.  An arm is <<patterns, value>>, *)
(* patterns being the alternatives of an or-pattern in textual order.          *)

InPattern(pats, x) == \E k \in 1..Len(pats) : pats[k] = x

HasArm(arms, x) == \E i \in 1..Len(arms) : InPattern(arms[i][1], x)

FirstArm(arms, x) ==
  CHOOSE i \in 1..Len(arms) :
    /\ InPattern(arms[i][1], x)
    /\ \A j \in 1..(i - 1) : ~InPattern(arms[j][1], x)

\* What a match with no arm for the scrutinee stands for.
NoArm == "<no arm>"

----------------------------------------------------------------------------
(* AxError::as_str *)

AsStrArms ==
  << << <<"AddressInUse">>, "Address in use" >>,
     << <<"BadAddress">>, "Bad address" >>,
     << <<"BadState">>, "Bad internal state" >>,
     << <<"AlreadyExists">>, "Entity already exists" >>,
     << <<"ConnectionRefused">>, "Connection refused" >>,
     << <<"ConnectionReset">>, "Connection reset" >>,
     << <<"DirectoryNotEmpty">>, "Directory not empty" >>,
     << <<"InvalidData">>, "Invalid data" >>,
     << <<"InvalidInput">>, "Invalid input parameter" >>,
     << <<"Io">>, "I/O error" >>,
     << <<"IsADirectory">>, "Is a directory" >>,
     << <<"NoMemory">>, "Out of memory" >>,
     << <<"NotADirectory">>, "Not a directory" >>,
     << <<"NotConnected">>, "Not connected" >>,
     << <<"NotFound">>, "Entity not found" >>,
     << <<"PermissionDenied">>, "Permission denied" >>,
     << <<"ResourceBusy">>, "Resource busy" >>,
     << <<"StorageFull">>, "No storage space" >>,
     << <<"UnexpectedEof">>, "Unexpected end of file" >>,
     << <<"Unsupported">>, "Operation not supported" >>,
     << <<"WouldBlock">>, "Operation would block" >>,
     << <<"WriteZero">>, "Write zero" >>,
     << <<"TooBig">>, "Argument list too long" >>,
     << <<"CrossesDevices">>, "Cross-device link or rename" >>,
     << <<"BadIoctl">>, "Inappropriate ioctl for device" >>,
     << <<"NameTooLong">>, "Filename too long" >>,
     << <<"BadFileDescriptor">>, "Bad file descriptor" >>,
     << <<"FilesystemLoop">>, "Filesystem loop or indirection limit" >>,
     << <<"OperationNotSupported">>, "Operation not supported" >>,
     << <<"InProgress">>, "Operation in progress" >>,
     << <<"AlreadyConnected">>, "Already connected" >>,
     << <<"Interrupted">>, "Operation interrupted" >>,
     << <<"TimedOut">>, "Timed out" >>,
     << <<"NotASocket">>, "Not a socket" >>,
     << <<"BrokenPipe">>, "Broken pipe" >>,
     << <<"TooManyOpenFiles">>, "Too many open files" >>,
     << <<"NoSuchProcess">>, "No such process" >>,
     << <<"IllegalBytes">>, "Illegal byte sequence" >>,
     << <<"OperationNotPermitted">>, "Operation not permitted" >>,
     << <<"OutOfRange">>, "Result out of range" >>,
     << <<"InvalidExecutable">>, "Invalid executable format" >>,
     << <<"NoSuchDevice">>, "No such device" >>,
     << <<"ReadOnlyFilesystem">>, "Read-only filesystem" >> >>

\* as_str with an Other arm that carries a description of its own.
AxAsStr_OwnOther(a) ==
  IF a.tag = "Other" THEN "Other error"
  ELSE IF HasArm(AsStrArms, a.tag) THEN AsStrArms[FirstArm(AsStrArms, a.tag)][2]
  ELSE NoArm

AxAsStr(a) ==
  IF a.tag = "Other" THEN LinuxAsStr(a.errno)
  ELSE IF HasArm(AsStrArms, a.tag) THEN AsStrArms[FirstArm(AsStrArms, a.tag)][2]
  ELSE NoArm

----------------------------------------------------------------------------
(* impl From<AxError> for LinuxError *)

FromArms ==
  << << <<"AddressInUse">>, "EADDRINUSE" >>,
     << <<"AlreadyExists">>, "EEXIST" >>,
     << <<"BadAddress", "BadState">>, "EFAULT" >>,
     << <<"ConnectionRefused">>, "ECONNREFUSED" >>,
     << <<"ConnectionReset">>, "ECONNRESET" >>,
     << <<"DirectoryNotEmpty">>, "ENOTEMPTY" >>,
     << <<"InvalidInput", "InvalidData">>, "EINVAL" >>,
     << <<"Io">>, "EIO" >>,
     << <<"IsADirectory">>, "EISDIR" >>,
     << <<"NoMemory">>, "ENOMEM" >>,
     << <<"NotADirectory">>, "ENOTDIR" >>,
     << <<"NotConnected">>, "ENOTCONN" >>,
     << <<"NotFound">>, "ENOENT" >>,
     << <<"PermissionDenied">>, "EACCES" >>,
     << <<"ResourceBusy">>, "EBUSY" >>,
     << <<"StorageFull">>, "ENOSPC" >>,
     << <<"Unsupported">>, "ENOSYS" >>,
     << <<"UnexpectedEof", "WriteZero">>, "EIO" >>,
     << <<"WouldBlock">>, "EAGAIN" >>,
     << <<"TooBig">>, "E2BIG" >>,
     << <<"CrossesDevices">>, "EXDEV" >>,
     << <<"BadIoctl">>, "ENOTTY" >>,
     << <<"NameTooLong">>, "ENAMETOOLONG" >>,
     << <<"BadFileDescriptor">>, "EBADF" >>,
     << <<"FilesystemLoop">>, "ELOOP" >>,
     << <<"OperationNotSupported">>, "EOPNOTSUPP" >>,
     << <<"InProgress">>, "EINPROGRESS" >>,
     << <<"AlreadyConnected">>, "EISCONN" >>,
     << <<"Interrupted">>, "EINTR" >>,
     << <<"TimedOut">>, "ETIMEDOUT" >>,
     << <<"NotASocket">>, "ENOTSOCK" >>,
     << <<"BrokenPipe">>, "EPIPE" >>,
     << <<"TooManyOpenFiles">>, "EMFILE" >>,
     << <<"NoSuchProcess">>, "ESRCH" >>,
     << <<"IllegalBytes">>, "EILSEQ" >>,
     << <<"OperationNotPermitted">>, "EPERM" >>,
     << <<"OutOfRange">>, "ERANGE" >>,
     << <<"InvalidExecutable">>, "ENOEXEC" >>,
     << <<"NoSuchDevice">>, "ENODEV" >>,
     << <<"ReadOnlyFilesystem">>, "EROFS" >> >>

\* from with an Other arm that maps every wrapped errno to EINVAL.
LinuxFrom_OtherEinval(a) ==
  IF a.tag = "Other" THEN "EINVAL"
  ELSE IF HasArm(FromArms, a.tag) THEN FromArms[FirstArm(FromArms, a.tag)][2]
  ELSE NoArm

\* from whose Other arm is left unimplemented.
LinuxFrom_OtherTodo(a) ==
  IF a.tag = "Other" THEN NoArm
  ELSE IF HasArm(FromArms, a.tag) THEN FromArms[FirstArm(FromArms, a.tag)][2]
  ELSE NoArm

LinuxFrom(a) ==
  IF a.tag = "Other" THEN a.errno
  ELSE IF HasArm(FromArms, a.tag) THEN FromArms[FirstArm(FromArms, a.tag)][2]
  ELSE NoArm

----------------------------------------------------------------------------
(* impl TryFrom<LinuxError> for AxError *)

TryFromArms ==
  << << <<"EADDRINUSE">>, "AddressInUse" >>,
     << <<"EEXIST">>, "AlreadyExists" >>,
     << <<"EFAULT">>, "BadAddress" >>,
     << <<"ECONNREFUSED">>, "ConnectionRefused" >>,
     << <<"ECONNRESET">>, "ConnectionReset" >>,
     << <<"ENOTEMPTY">>, "DirectoryNotEmpty" >>,
     << <<"EINVAL">>, "InvalidInput" >>,
     << <<"EIO">>, "Io" >>,
     << <<"EISDIR">>, "IsADirectory" >>,
     << <<"ENOMEM">>, "NoMemory" >>,
     << <<"ENOTDIR">>, "NotADirectory" >>,
     << <<"ENOTCONN">>, "NotConnected" >>,
     << <<"ENOENT">>, "NotFound" >>,
     << <<"EACCES">>, "PermissionDenied" >>,
     << <<"EBUSY">>, "ResourceBusy" >>,
     << <<"ENOSPC">>, "StorageFull" >>,
     << <<"ENOSYS">>, "Unsupported" >>,
     << <<"EAGAIN">>, "WouldBlock" >>,
     << <<"E2BIG">>, "TooBig" >>,
     << <<"EXDEV">>, "CrossesDevices" >>,
     << <<"ENOTTY">>, "BadIoctl" >>,
     << <<"ENAMETOOLONG">>, "NameTooLong" >>,
     << <<"EBADF">>, "BadFileDescriptor" >>,
     << <<"ELOOP">>, "FilesystemLoop" >>,
     << <<"EOPNOTSUPP">>, "OperationNotSupported" >>,
     << <<"EINPROGRESS">>, "InProgress" >>,
     << <<"EISCONN">>, "AlreadyConnected" >>,
     << <<"EINTR">>, "Interrupted" >>,
     << <<"ETIMEDOUT">>, "TimedOut" >>,
     << <<"ENOTSOCK">>, "NotASocket" >>,
     << <<"EPIPE">>, "BrokenPipe" >>,
     << <<"EMFILE">>, "TooManyOpenFiles" >>,
     << <<"ESRCH">>, "NoSuchProcess" >>,
     << <<"EILSEQ">>, "IllegalBytes" >>,
     << <<"EPERM">>, "OperationNotPermitted" >>,
     << <<"ERANGE">>, "OutOfRange" >>,
     << <<"ENOEXEC">>, "InvalidExecutable" >>,
     << <<"ENODEV">>, "NoSuchDevice" >>,
     << <<"EROFS">>, "ReadOnlyFilesystem" >> >>

\* The match of try_from over a table of arms, with the payload the wildcard arm returns.
TryFromWith(arms, e, payload) ==
  IF HasArm(arms, e) THEN Ok(Unit(arms[FirstArm(arms, e)][2])) ELSE Err(payload)

\* try_from with the ENOTDIR arm naming IsADirectory.
AxTryFrom_WrongArm(e) ==
  TryFromWith([TryFromArms EXCEPT ![11] = << <<"ENOTDIR">>, "IsADirectory" >>], e, e)

\* try_from with the last arm (EROFS) left out.
AxTryFrom_MissingArm(e) ==
  TryFromWith(SubSeq(TryFromArms, 1, Len(TryFromArms) - 1), e, e)

\* try_from whose wildcard arm returns a fixed errno.
AxTryFrom_FixedErr(e) == TryFromWith(TryFromArms, e, "EINVAL")

\* try_from with the EFAULT arm naming BadState.
AxTryFrom_BadState(e) ==
  TryFromWith([TryFromArms EXCEPT ![3] = << <<"EFAULT">>, "BadState" >>], e, e)

\* try_from with the EIO arm naming UnexpectedEof.
AxTryFrom_Eof(e) ==
  TryFromWith([TryFromArms EXCEPT ![8] = << <<"EIO">>, "UnexpectedEof" >>], e, e)

AxTryFrom(e) == TryFromWith(TryFromArms, e, e)

----------------------------------------------------------------------------
(* ax_err! and bail! *)

\* The optional message argument: <<>> for the one-argument arm.
Msgs == { <<>>, <<"the address is 0!">> }

\* The identifiers the macros are applied to.
Idents == AxVariantNames \cup LinuxError

\* The value names in scope where the macro is called: none (only the macro
\* and the enum types are imported, as in the doc example) or the LinuxError
\* variants (use LinuxError::*).
CallScopes == { {}, LinuxError }

\* What $err names inside the macro's block: `use $crate::AxError::*` puts the
\* AxError variants in scope, next to the names of the call site.
Resolve(ident, scope) ==
  IF ident \in AxVariantNames THEN [kind |-> "AxError", val |-> Unit(ident)]
  ELSE IF ident \in scope THEN [kind |-> "LinuxError", val |-> ident]
  ELSE [kind |-> "CompileError", val |-> ident]

\* The line handed to warn!: "[{:?}]" or "[{:?}] {}".
WarnLine(ident, msg) ==
  IF msg = <<>> THEN <<"[", ident, "]">> ELSE <<"[", ident, "] ", msg[1]>>

\* ax_err! whose block ends in the warn! call: it evaluates to ().
ax_err_NoTail(ident, msg, scope) ==
  IF Resolve(ident, scope).kind = "CompileError" THEN Resolve(ident, scope)
  ELSE [kind |-> "Unit", val |-> <<>>]

\* The value of ax_err!(ident) / ax_err!(ident, msg).
ax_err(ident, msg, scope) == Resolve(ident, scope)

\* bail!: return Err(ax_err!(..)) from the enclosing function.
bail(ident, msg, scope) ==
  IF ax_err(ident, msg, scope).kind = "CompileError" THEN ax_err(ident, msg, scope)
  ELSE [kind |-> "Return", val |-> Err(ax_err(ident, msg, scope))]

\* warn!: the line reaches the sink when the sink is active, and is dropped otherwise.
Warn(line) ==
  IF sinkActive
  THEN /\ emitted' = emitted + 1
       /\ logged' = line
  ELSE /\ emitted' = emitted
       /\ logged' = <<>>

----------------------------------------------------------------------------
(* The state machine *)

Init ==
  /\ op = "init"
  /\ arg = <<>>
  /\ res = <<>>
  /\ origin = <<>>
  /\ sinkActive = FALSE
  /\ emitted = 0
  /\ logged = <<>>

SinkUnchanged == UNCHANGED <<sinkActive, emitted, logged>>

\* LinuxError::from(a)
CallFrom ==
  \E a \in AxError :
    /\ op' = "from"
    /\ arg' = a
    /\ origin' = a
    /\ res' = LinuxFrom(a)
    /\ SinkUnchanged

\* AxError::try_from(e)
CallTryFrom ==
  \E e \in LinuxError :
    /\ op' = "try_from"
    /\ arg' = e
    /\ origin' = e
    /\ res' = AxTryFrom(e)
    /\ SinkUnchanged

\* a.as_str()
CallAsStr ==
  \E a \in AxError :
    /\ op' = "as_str"
    /\ arg' = a
    /\ origin' = a
    /\ res' = AxAsStr(a)
    /\ SinkUnchanged

\* AxError::try_from(LinuxError::from(a)): the errno just produced is converted back.
FromThenTryFrom ==
  /\ op = "from"
  /\ res \in LinuxError
  /\ op' = "from;try_from"
  /\ arg' = res
  /\ origin' = arg
  /\ res' = AxTryFrom(res)
  /\ SinkUnchanged

\* LinuxError::from(a) for the a that try_from just returned in Ok.
TryFromThenFrom ==
  /\ op = "try_from"
  /\ res.kind = "Ok"
  /\ op' = "try_from;from"
  /\ arg' = res.val
  /\ origin' = arg
  /\ res' = LinuxFrom(res.val)
  /\ SinkUnchanged

\* The caller's fallback after try_from failed: wrap the errno in Other, then
\* convert to LinuxError.
FallbackOtherThenFrom ==
  /\ op = "try_from"
  /\ res.kind = "Err"
  /\ op' = "try_from;other;from"
  /\ arg' = Other(arg)
  /\ origin' = arg
  /\ res' = LinuxFrom(Other(arg))
  /\ SinkUnchanged

\* ax_err!(ident) or ax_err!(ident, msg)
CallAxErr ==
  \E ident \in Idents, msg \in Msgs, scope \in CallScopes :
    /\ emitted < MaxLog
    /\ op' = "ax_err"
    /\ arg' = [ident |-> ident, msg |-> msg, scope |-> scope]
    /\ origin' = ident
    /\ res' = ax_err(ident, msg, scope)
    /\ IF ax_err(ident, msg, scope).kind = "CompileError"
       THEN emitted' = emitted /\ logged' = <<>>
       ELSE Warn(WarnLine(ident, msg))
    /\ UNCHANGED sinkActive

\* bail!(ident) or bail!(ident, msg)
CallBail ==
  \E ident \in Idents, msg \in Msgs, scope \in CallScopes :
    /\ emitted < MaxLog
    /\ op' = "bail"
    /\ arg' = [ident |-> ident, msg |-> msg, scope |-> scope]
    /\ origin' = ident
    /\ res' = bail(ident, msg, scope)
    /\ IF bail(ident, msg, scope).kind = "CompileError"
       THEN emitted' = emitted /\ logged' = <<>>
       ELSE Warn(WarnLine(ident, msg))
    /\ UNCHANGED sinkActive

\* A logger is installed and warnings are enabled.
EnableSink ==
  /\ ~sinkActive
  /\ sinkActive' = TRUE
  /\ UNCHANGED <<op, arg, res, origin, emitted, logged>>

\* Warnings are filtered out again.
DisableSink ==
  /\ sinkActive
  /\ sinkActive' = FALSE
  /\ UNCHANGED <<op, arg, res, origin, emitted, logged>>

Next ==
  \/ CallFrom
  \/ CallTryFrom
  \/ CallAsStr
  \/ FromThenTryFrom
  \/ TryFromThenFrom
  \/ FallbackOtherThenFrom

Spec == Init /\ [][Next]_vars

MacroNext ==
  \/ CallAxErr
  \/ CallBail
  \/ EnableSink
  \/ DisableSink

MacroSpec == Init /\ [][MacroNext]_vars

----------------------------------------------------------------------------
(* Properties *)

\* The states in which the last step was LinuxError::from.
FromOps == {"from", "try_from;from", "try_from;other;from"}

\* The states in which the last step was AxError::try_from.
TryFromOps == {"try_from", "from;try_from"}

\* C1: for every LinuxError e with AxError::try_from(e) = Ok(a), converting
\* back with LinuxError::from(a) yields exactly e.
C1_ErrnoRoundTrip ==
  op = "try_from;from" => res = origin

C1_Witness ==
  /\ op = "try_from;from"
  /\ origin = "EIO"
  /\ arg = Unit("Io")
  /\ res = "EIO"

\* C2: for every AxError a that is not Other(_), AxError::try_from(LinuxError::from(a))
\* returns Ok.
C2_ForwardTargetsRecognized ==
  (op = "from;try_from" /\ origin.tag # "Other") => res.kind = "Ok"

C2_Witness ==
  /\ op = "from;try_from"
  /\ origin.tag = "ReadOnlyFilesystem"
  /\ arg = "EROFS"
  /\ res.kind = "Ok"

\* C3: when AxError::try_from(e) returns Err(e'), e' is the input e.
C3_ErrCarriesInput ==
  (op \in TryFromOps /\ res.kind = "Err") => res.val = arg

C3_Witness ==
  /\ op = "try_from"
  /\ arg = "EDEADLK"
  /\ res.kind = "Err"
  /\ res.val = "EDEADLK"

\* C4: LinuxError::from is total and single-valued: every AxError value maps
\* to a LinuxError value (no input is left without an arm), and a unit variant
\* is matched by exactly one arm, so the value does not depend on arm order.
C4_FromTotal ==
  op \in FromOps =>
    /\ res \in LinuxError
    /\ arg.tag # "Other" =>
         Cardinality({ i \in 1..Len(FromArms) : InPattern(FromArms[i][1], arg.tag) }) = 1

C4_Witness ==
  /\ op = "from"
  /\ arg.tag = "Other"
  /\ arg.errno = "ENOLCK"
  /\ res = "ENOLCK"

\* C5: the Other fallback never loses the errno: LinuxError::from(Other(e)) = e,
\* and the total conversion (try_from(e) when Ok, Other(e) when Err) followed by
\* LinuxError::from returns e.
C5_OtherKeepsErrno ==
  /\ (op \in FromOps /\ arg.tag = "Other") => res = arg.errno
  /\ op \in {"try_from;from", "try_from;other;from"} => res = origin

C5_Witness ==
  /\ op = "try_from;other;from"
  /\ origin = "EDEADLK"
  /\ arg.tag = "Other"
  /\ res = "EDEADLK"

\* The unit variants that LinuxError::from maps to e.
Preimage(e) == { t \in AxVariantNames : LinuxFrom(Unit(t)) = e }

\* The errnos that several unit variants map to.
SharedErrnos == { e \in LinuxError : Cardinality(Preimage(e)) > 1 }

\* Where a variant is listed in the forward mapping: its arm, and its place in
\* the arm's or-pattern.
ArmOf(t) == FirstArm(FromArms, t)
AltOf(t) == CHOOSE k \in 1..Len(FromArms[ArmOf(t)][1]) : FromArms[ArmOf(t)][1][k] = t
ListedBefore(t, u) ==
  \/ ArmOf(t) < ArmOf(u)
  \/ ArmOf(t) = ArmOf(u) /\ AltOf(t) <= AltOf(u)

\* The variant mapped to e that the forward mapping lists first.
FirstListed(e) == CHOOSE t \in Preimage(e) : \A u \in Preimage(e) : ListedBefore(t, u)

\* C6: for an errno that several AxError variants map to, try_from returns the
\* variant the forward mapping lists first: EFAULT gives BadAddress, EINVAL
\* gives InvalidInput, EIO gives Io.
C6_CanonicalVariant ==
  op \in TryFromOps =>
    /\ arg \in SharedErrnos =>
         (res.kind = "Ok" /\ res.val = Unit(FirstListed(arg)))
    /\ arg = "EFAULT" => (res.kind = "Ok" /\ res.val = Unit("BadAddress"))
    /\ arg = "EINVAL" => (res.kind = "Ok" /\ res.val = Unit("InvalidInput"))
    /\ arg = "EIO" => (res.kind = "Ok" /\ res.val = Unit("Io"))

C6_Witness ==
  /\ op = "try_from"
  /\ arg = "EFAULT"
  /\ arg \in SharedErrnos
  /\ res.kind = "Ok"
  /\ res.val = Unit("BadAddress")

\* C7: ax_err! applied to a LinuxError variant identifier evaluates to that
\* LinuxError variant, with or without a message.
C7_AxErrOfLinuxIdent ==
  (op = "ax_err" /\ arg.ident \in LinuxError) =>
    (res.kind = "LinuxError" /\ res.val = arg.ident)

\* C8: ax_err! applied to an AxError variant identifier X evaluates to
\* AxError::X, with or without a message, whether the sink is active or not.
C8_AxErrValueIgnoresSink ==
  (op = "ax_err" /\ arg.ident \in AxVariantNames) =>
    (res.kind = "AxError" /\ res.val = Unit(arg.ident))

\* A line was delivered earlier, then the sink was disabled, and the call
\* that followed delivered nothing and still produced NoMemory.
C8_Witness ==
  /\ op = "ax_err"
  /\ arg.ident = "NoMemory"
  /\ ~sinkActive
  /\ emitted = 1
  /\ logged = <<>>
  /\ res.kind = "AxError"
  /\ res.val = Unit("NoMemory")

\* C9: AxError::Other(e).as_str() is e.as_str().
C9_OtherAsStrDelegates ==
  (op = "as_str" /\ arg.tag = "Other") => res = LinuxAsStr(arg.errno)

C9_Witness ==
  /\ op = "as_str"
  /\ arg.tag = "Other"
  /\ arg.errno = "EDEADLK"
  /\ res = "Resource deadlock would occur"

\* The variants whose round trip does not give them back, and what it gives.
Collapsed == {"BadState", "InvalidData", "UnexpectedEof", "WriteZero"}
CollapsedTo(t) ==
  CASE t = "BadState" -> "BadAddress"
    [] t = "InvalidData" -> "InvalidInput"
    [] t = "UnexpectedEof" -> "Io"
    [] t = "WriteZero" -> "Io"

\* C10: for a non-Other a, try_from(from(a)) = Ok(a), except for BadState,
\* InvalidData, UnexpectedEof and WriteZero, which give BadAddress,
\* InvalidInput, Io and Io; try_from never returns Ok(Other(_)) nor Ok of one
\* of those four.
C10_IdentityRoundTrip ==
  /\ (op = "from;try_from" /\ origin.tag # "Other") =>
       /\ res.kind = "Ok"
       /\ origin.tag \notin Collapsed => res.val = origin
       /\ origin.tag \in Collapsed =>
            (res.val = Unit(CollapsedTo(origin.tag)) /\ res.val # origin)
  /\ (op \in TryFromOps /\ res.kind = "Ok") =>
       res.val.tag \notin Collapsed \cup {"Other"}

C10_Witness ==
  /\ op = "from;try_from"
  /\ origin.tag = "WriteZero"
  /\ arg = "EIO"
  /\ res.kind = "Ok"
  /\ res.val = Unit("Io")

====
